---- MODULE Spec2Model ----
(***************************************************************************)
(* csvgraph: a single-page tool that parses an uploaded CSV file, lets the *)
(* user pick an X field, Y fields and per-field scaling factors, and plots *)
(* the derived series.  The repository holds three variants of the App     *)
(* component; the model carries the variant as a state variable fixed by   *)
(* Init, so every property is checked for each of them:                    *)
(*   VBasic  = src/src/App.jsx lines 1-160   (no scaling heuristic)        *)
(*   VExport = src/src/App.jsx lines 162-365 (heuristic, PNG export)       *)
(*   VTable  = src/unnamed/part_000          (heuristic, table form)       *)
(*                                                                         *)
(* Representation.  A JavaScript string is a sequence of one-character     *)
(* strings.  A number is the pair <<"number", n>>; scaling factors and the *)
(* products row[f] * factor are held in thousandths (factor 0.01 is 10,    *)
(* factor 1 is 1000), cells of the CSV in units.  IEEE rounding of the     *)
(* products is not modelled.                                               *)
(***************************************************************************)
EXTENDS Integers, Sequences, FiniteSets, Bags, TLC

VBasic == "App.jsx:1-160"
VExport == "App.jsx:162-365"
VTable == "part_000"
Variants == {VBasic, VExport, VTable}

(* Bounds of the model. *)
MaxInFlight == 2
MaxSteps == 8
MaxValue == 1200

-----------------------------------------------------------------------------
(* JavaScript values *)

Unit == 1000

Num(n) == <<"number", n>>
NaN == <<"NaN", 0>>
Null == <<"null", 0>>
Undefined == <<"undefined", 0>>
\* a string Number() cannot read, such as "a"
Text == <<"string", 0>>
\* a string Papa's dynamicTyping leaves alone and Number() reads, such as "0x10"
NumStr(n) == <<"numeric string", n>>

\* the ToNumber conversion behind Number(v), isNaN(v) and v * k
Number(v) ==
  CASE v[1] = "number" -> v
    [] v[1] = "numeric string" -> Num(v[2])
    [] v[1] = "null" -> Num(0)
    [] OTHER -> NaN

isNaN(v) == Number(v) = NaN

\* v * factor, the factor in thousandths
Times(v, factor) ==
  IF isNaN(v) THEN NaN ELSE Num(Number(v)[2] * factor)

\* row[key] of an object held as a sequence of <<key, value>> in insertion order
Get(row, key) ==
  IF \E i \in 1..Len(row) : row[i][1] = key
  THEN row[CHOOSE i \in 1..Len(row) : row[i][1] = key][2]
  ELSE Undefined

ObjectKeys(row) == [i \in 1..Len(row) |-> row[i][1]]

includesElem(seq, e) == \E i \in 1..Len(seq) : seq[i] = e

-----------------------------------------------------------------------------
(* Strings *)

Lower(c) ==
  CASE c = "P" -> "p" [] c = "E" -> "e" [] c = "R" -> "r" [] c = "C" -> "c"
    [] c = "N" -> "n" [] c = "T" -> "t" [] OTHER -> c

toLowerCase(s) == [i \in 1..Len(s) |-> Lower(s[i])]

\* String.prototype.includes
includes(s, sub) ==
  \E i \in 0..(Len(s) - Len(sub)) : SubSeq(s, i + 1, i + Len(sub)) = sub

RECURSIVE split(_, _)
\* s.split(sep) for a one-character separator
split(s, sep) ==
  IF \E i \in 1..Len(s) : s[i] = sep
  THEN LET i == CHOOSE k \in 1..Len(s) :
                  s[k] = sep /\ \A j \in 1..(k - 1) : s[j] # sep
       IN <<SubSeq(s, 1, i - 1)>> \o split(SubSeq(s, i + 1, Len(s)), sep)
  ELSE <<s>>

RECURSIVE join(_, _)
join(parts, sep) ==
  IF Len(parts) = 0 THEN <<>>
  ELSE IF Len(parts) = 1 THEN parts[1]
  ELSE parts[1] \o <<sep>> \o join(Tail(parts), sep)

\* file.name.split('.').slice(0, -1).join('.')
baseName(name) ==
  LET parts == split(name, ".")
  IN join(SubSeq(parts, 1, Len(parts) - 1), ".")

-----------------------------------------------------------------------------
(* Scaling heuristic *)

scalingOptions == <<1, 10, 100, 1000, 10000, 100000, 1000000>>

\* mutant: the name is searched without toLowerCase()
isPercentageFieldCaseSensitive(fieldName) ==
  includes(fieldName, <<"p", "e", "r", "c", "e", "n", "t">>)
    \/ includes(fieldName, <<"%">>)

isPercentageField(fieldName) ==
  LET lowerFieldName == toLowerCase(fieldName)
  IN includes(lowerFieldName, <<"p", "e", "r", "c", "e", "n", "t">>)
       \/ includes(lowerFieldName, <<"%">>)

\* mutant: no rule for zero, and values of at most 1 are scaled up
calculateScalingFactorSmallUp(maxValue, fieldName) ==
  IF isPercentageField(fieldName) THEN 10
  ELSE IF maxValue >= 1000 THEN 1
  ELSE IF maxValue > 100 /\ maxValue <= 1000 THEN 1
  ELSE IF maxValue > 50 /\ maxValue <= 100 THEN 10
  ELSE IF maxValue > 10 /\ maxValue <= 50 THEN 100
  ELSE IF maxValue > 1 /\ maxValue <= 10 THEN 1000
  ELSE 10000

\* part_000
calculateScalingFactorTable(maxValue, fieldName) ==
  IF isPercentageField(fieldName) THEN 10
  ELSE IF maxValue = 0 THEN 1000
  ELSE IF maxValue >= 1000 THEN 1
  ELSE IF maxValue > 100 /\ maxValue <= 1000 THEN 1
  ELSE IF maxValue > 50 /\ maxValue <= 100 THEN 10
  ELSE IF maxValue > 10 /\ maxValue <= 50 THEN 100
  ELSE IF maxValue > 1 /\ maxValue <= 10 THEN 1000
  ELSE 1000

\* App.jsx, second variant
calculateScalingFactorExport(maxValue, fieldName) ==
  IF isPercentageField(fieldName) THEN 10
  ELSE IF maxValue = 0 THEN 1000
  ELSE IF maxValue >= 1000 THEN 1
  ELSE IF maxValue > 500 /\ maxValue <= 1000 THEN 1
  ELSE IF maxValue > 100 /\ maxValue <= 500 THEN 10
  ELSE IF maxValue > 50 /\ maxValue <= 100 THEN 10
  ELSE IF maxValue > 10 /\ maxValue <= 50 THEN 100
  ELSE IF maxValue > 1 /\ maxValue <= 10 THEN 1000
  ELSE 1000

calculateScalingFactor(v, maxValue, fieldName) ==
  IF v = VExport THEN calculateScalingFactorExport(maxValue, fieldName)
  ELSE calculateScalingFactorTable(maxValue, fieldName)

-----------------------------------------------------------------------------
(* The files the user can pick: name and Papa.parse's result.data           *)
(* (header: true, dynamicTyping: true).                                     *)

FX == <<"x">>
FY == <<"y">>
FN == <<"n">>
FR == <<"R", "%">>

Disk ==
  [a |-> [name |-> <<"a", ".", "c", "s", "v">>,
          data |-> << << <<FX, Num(1)>>, <<FY, Text>> >>,
                      << <<FX, Num(2)>>, <<FY, Num(5)>> >> >>],
   b |-> [name |-> <<"b", ".", "c", "s", "v">>,
          data |-> << << <<FN, Num(-2000)>>, <<FR, Num(250)>> >>,
                      << <<FN, Num(-1500)>>, <<FR, Null>> >> >>],
   d |-> [name |-> <<"d">>,
          data |-> << << <<FX, NumStr(250)>> >> >>],
   e |-> [name |-> <<"e", ".", "c", "s", "v">>,
          data |-> << >>]]

Files == DOMAIN Disk
NoFile == "(no file)"

-----------------------------------------------------------------------------
VARIABLES
  variant,             \* which App component runs
  csvData, fields, selectedFields, scalingFactors, data,
  xAxisField, xAxisScalingFactor, showForm, isFullScreen, fileName,
  parsing,             \* bag of files whose Papa.parse has not completed
  exporting,           \* number of toPng promises not settled
  picked,              \* the file the <input type="file"> holds, or NoFile
  event,               \* the handler that ran last and how it ended
  steps,               \* events this page has handled since it loaded
  prevData,            \* data as it was before the last chart was built
  \* a call of calculateScalingFactor on its own: arguments and result
  argMaxValue, argFieldName, called, result

state == <<csvData, fields, selectedFields, scalingFactors, data,
           xAxisField, xAxisScalingFactor, showForm, isFullScreen, fileName>>
vars == <<variant, csvData, fields, selectedFields, scalingFactors, data,
          xAxisField, xAxisScalingFactor, showForm, isFullScreen, fileName,
          parsing, exporting, picked, event, steps, prevData,
          argMaxValue, argFieldName, called, result>>
scaleVars == <<argMaxValue, argFieldName, called, result>>

\* useState initial values
Mount ==
  /\ csvData = <<>>
  /\ fields = <<>>
  /\ selectedFields = <<>>
  /\ scalingFactors = <<>>
  /\ data = <<>>
  /\ xAxisField = <<>>
  /\ xAxisScalingFactor = Unit
  /\ showForm = TRUE
  /\ isFullScreen = FALSE
  /\ fileName = <<>>
  /\ parsing = EmptyBag
  /\ exporting = 0
  /\ picked = NoFile
  /\ event = "mount"
  /\ steps = 0
  /\ prevData = <<>>

Init ==
  /\ variant \in Variants
  /\ Mount
  /\ argMaxValue = 0
  /\ argFieldName = <<>>
  /\ called = FALSE
  /\ result = 0

-----------------------------------------------------------------------------
(* What the render shows, which decides the handlers the user can reach. *)

\* the <input type="file">
InputVisible ==
  IF variant = VTable THEN showForm /\ fileName = <<>> ELSE ~isFullScreen

\* the selectors, the checkbox rows and the Generate button
FormVisible ==
  IF variant = VTable THEN showForm /\ fileName # <<>>
  ELSE ~isFullScreen /\ showForm

\* the plot with its buttons
ChartVisible ==
  IF variant = VTable THEN ~showForm ELSE ~isFullScreen /\ ~showForm

\* the options of a scale dropdown the user picks from
UserOptions == {scalingOptions[2], scalingOptions[4]}

InFlight == BagCardinality(parsing) + exporting

\* scalingFactors[field] || 1
factorOf(field) ==
  IF field \in DOMAIN scalingFactors THEN scalingFactors[field] ELSE Unit

-----------------------------------------------------------------------------
(* Upload and parse *)

\* onChange of the file input: fired when the user picks a file other than
\* the one the input holds.  The input of part_000 is unmounted, and so
\* emptied, once fileName is set.
handleFileUpload(f) ==
  /\ InputVisible
  /\ f # picked
  /\ InFlight < MaxInFlight
  /\ fileName' = baseName(Disk[f].name)
  /\ parsing' = parsing (+) SetToBag({f})
  /\ picked' = IF variant = VTable /\ fileName' # <<>> THEN NoFile ELSE f
  /\ event' = "handleFileUpload"
  /\ UNCHANGED <<variant, csvData, fields, selectedFields, scalingFactors,
                 data, xAxisField, xAxisScalingFactor, showForm,
                 isFullScreen, exporting, prevData>>

\* newRow[key] = isNaN(row[key]) ? row[key] : Number(row[key])
convertRow(row) ==
  [i \in 1..Len(row) |->
     <<row[i][1], IF isNaN(row[i][2]) THEN row[i][2] ELSE Number(row[i][2])>>]

Max(S) == CHOOSE m \in S : \A n \in S : n <= m

\* Math.max(...rows.map(row => isNaN(row[field]) ? 0 : row[field]))
maxValueOf(rows, field) ==
  Max({IF isNaN(Get(rows[i], field)) THEN 0 ELSE Get(rows[i], field)[2] :
         i \in 1..Len(rows)})

newScalingFactorsOf(rows, fieldNames) ==
  [field \in {fieldNames[i] : i \in 1..Len(fieldNames)} |->
     calculateScalingFactor(variant, maxValueOf(rows, field), field)]

\* the rows the complete callback stores for file f
parsedRows(f) ==
  IF variant = VBasic THEN Disk[f].data
  ELSE [i \in 1..Len(Disk[f].data) |-> convertRow(Disk[f].data[i])]

\* Papa.parse's complete callback.  With no row, Object.keys(csvData[0])
\* throws after setCsvData was called: the queued update is applied and the
\* rest of the callback never runs.
complete(f) ==
  /\ BagIn(f, parsing)
  /\ parsing' = parsing (-) SetToBag({f})
  /\ LET rows == parsedRows(f)
     IN /\ csvData' = rows
        /\ IF Len(rows) = 0
           THEN /\ event' = "complete: TypeError"
                /\ UNCHANGED <<fields, scalingFactors>>
           ELSE /\ event' = "complete"
                /\ fields' = ObjectKeys(rows[1])
                /\ scalingFactors' =
                     IF variant = VBasic THEN scalingFactors
                     ELSE newScalingFactorsOf(rows, ObjectKeys(rows[1]))
  /\ UNCHANGED <<variant, selectedFields, data, xAxisField,
                 xAxisScalingFactor, showForm, isFullScreen, fileName,
                 exporting, prevData, picked>>

-----------------------------------------------------------------------------
(* Selection *)

handleFieldChange(field) ==
  /\ FormVisible
  /\ includesElem(fields, field) /\ field # xAxisField
  /\ selectedFields' =
       IF includesElem(selectedFields, field)
       THEN SelectSeq(selectedFields, LAMBDA g : g # field)
       ELSE Append(selectedFields, field)
  /\ event' = "handleFieldChange"
  /\ UNCHANGED <<variant, csvData, fields, scalingFactors, data, xAxisField,
                 xAxisScalingFactor, showForm, isFullScreen, fileName,
                 parsing, exporting, prevData, picked>>

handleScalingChange(field, factor) ==
  /\ FormVisible
  /\ includesElem(fields, field) /\ field # xAxisField
  /\ factor # factorOf(field)
  /\ IF variant # VBasic /\ field = xAxisField
     THEN xAxisScalingFactor' = factor /\ UNCHANGED scalingFactors
     ELSE /\ scalingFactors' = (field :> factor) @@ scalingFactors
          /\ UNCHANGED xAxisScalingFactor
  /\ event' = "handleScalingChange"
  /\ UNCHANGED <<variant, csvData, fields, selectedFields, data, xAxisField,
                 showForm, isFullScreen, fileName, parsing, exporting,
                 prevData, picked>>

\* first variant of App.jsx: onChange={(e) => setXAxisField(e.target.value)}
setXAxisField(field) ==
  /\ variant = VBasic
  /\ FormVisible
  /\ includesElem(fields, field) /\ field # xAxisField
  /\ xAxisField' = field
  /\ event' = "setXAxisField"
  /\ UNCHANGED <<variant, csvData, fields, selectedFields, scalingFactors,
                 data, xAxisScalingFactor, showForm, isFullScreen, fileName,
                 parsing, exporting, prevData, picked>>

handleXAxisFieldChange(field) ==
  /\ variant # VBasic
  /\ FormVisible
  /\ includesElem(fields, field) /\ field # xAxisField
  /\ xAxisField' = field
  /\ xAxisScalingFactor' = factorOf(field)
  /\ event' = "handleXAxisFieldChange"
  /\ UNCHANGED <<variant, csvData, fields, selectedFields, scalingFactors,
                 data, showForm, isFullScreen, fileName, parsing, exporting,
                 prevData, picked>>

setXAxisScalingFactor(factor) ==
  /\ FormVisible
  /\ factor # xAxisScalingFactor
  /\ xAxisScalingFactor' = factor
  /\ event' = "setXAxisScalingFactor"
  /\ UNCHANGED <<variant, csvData, fields, selectedFields, scalingFactors,
                 data, xAxisField, showForm, isFullScreen, fileName,
                 parsing, exporting, prevData, picked>>

-----------------------------------------------------------------------------
(* Graph data builder *)

\* the number ${1 / factor} of the label, in thousandths
formatScalingFactor(factor) ==
  IF factor = Unit THEN <<>>
  ELSE IF variant = VBasic THEN <<" (/ ", (Unit * Unit) \div factor, ")">>
  ELSE <<" / ", (Unit * Unit) \div factor>>

Map(rows, field, factor) ==
  [i \in 1..Len(rows) |-> Times(Get(rows[i], field), factor)]

\* csvData.map(row => !isNaN(row[field]) ? row[field] * factor : null)
\*        .filter(v => v !== null)
MapFilter(rows, field, factor) ==
  SelectSeq([i \in 1..Len(rows) |->
               IF ~isNaN(Get(rows[i], field))
               THEN Times(Get(rows[i], field), factor) ELSE Null],
            LAMBDA v : v # Null)

seriesOf(field) ==
  [x |-> IF variant = VBasic
         THEN Map(csvData, xAxisField, xAxisScalingFactor)
         ELSE MapFilter(csvData, xAxisField, xAxisScalingFactor),
   y |-> IF variant = VBasic
         THEN Map(csvData, field, factorOf(field))
         ELSE MapFilter(csvData, field, factorOf(field)),
   mode |-> "lines",
   name |-> <<field, formatScalingFactor(factorOf(field))>>]

plotData == [i \in 1..Len(selectedFields) |-> seriesOf(selectedFields[i])]

\* mutant: no check that an X field is selected
generateGraphUnguarded ==
  /\ FormVisible
  /\ data' = plotData
  /\ showForm' = FALSE
  /\ event' = "generateGraph"
  /\ prevData' = data
  /\ UNCHANGED <<variant, csvData, fields, selectedFields, scalingFactors,
                 xAxisField, xAxisScalingFactor, isFullScreen, fileName,
                 parsing, exporting, picked>>

\* mutant: the new series are appended to the ones already built
generateGraphMerging ==
  /\ FormVisible
  /\ IF xAxisField = <<>>
     THEN /\ event' = "generateGraph: alert"
          /\ UNCHANGED <<data, showForm, prevData>>
     ELSE /\ data' = data \o plotData
          /\ showForm' = FALSE
          /\ event' = "generateGraph"
          /\ prevData' = data
  /\ UNCHANGED <<variant, csvData, fields, selectedFields, scalingFactors,
                 xAxisField, xAxisScalingFactor, isFullScreen, fileName,
                 parsing, exporting, picked>>

generateGraph ==
  /\ FormVisible
  /\ IF xAxisField = <<>>
     THEN /\ event' = "generateGraph: alert"
          /\ UNCHANGED <<data, showForm, prevData>>
     ELSE /\ data' = plotData
          /\ showForm' = FALSE
          /\ event' = "generateGraph"
          /\ prevData' = data
  /\ UNCHANGED <<variant, csvData, fields, selectedFields, scalingFactors,
                 xAxisField, xAxisScalingFactor, isFullScreen, fileName,
                 parsing, exporting, picked>>

-----------------------------------------------------------------------------
(* View controller and image export *)

\* "Select Fields Again" / "Select fields": setShowForm(true)
selectFieldsAgain ==
  /\ ChartVisible
  /\ showForm' = TRUE
  /\ event' = "setShowForm(true)"
  /\ UNCHANGED <<variant, csvData, fields, selectedFields, scalingFactors,
                 data, xAxisField, xAxisScalingFactor, isFullScreen,
                 fileName, parsing, exporting, prevData, picked>>

\* "Full Screen": setIsFullScreen(true)
\* mutant: the "Full Screen" button is rendered beside the form too
enterFullScreenFromForm ==
  /\ variant # VTable
  /\ ~isFullScreen
  /\ isFullScreen' = TRUE
  /\ picked' = NoFile
  /\ event' = "setIsFullScreen(true)"
  /\ UNCHANGED <<variant, csvData, fields, selectedFields, scalingFactors,
                 data, xAxisField, xAxisScalingFactor, showForm, fileName,
                 parsing, exporting, prevData>>

\* the file input is not rendered in full screen: it comes back empty
enterFullScreen ==
  /\ variant # VTable
  /\ ChartVisible
  /\ isFullScreen' = TRUE
  /\ picked' = NoFile
  /\ event' = "setIsFullScreen(true)"
  /\ UNCHANGED <<variant, csvData, fields, selectedFields, scalingFactors,
                 data, xAxisField, xAxisScalingFactor, showForm, fileName,
                 parsing, exporting, prevData>>

\* "Exit Full Screen": setIsFullScreen(false)
exitFullScreen ==
  /\ variant # VTable
  /\ isFullScreen
  /\ isFullScreen' = FALSE
  /\ event' = "setIsFullScreen(false)"
  /\ UNCHANGED <<variant, csvData, fields, selectedFields, scalingFactors,
                 data, xAxisField, xAxisScalingFactor, showForm, fileName,
                 parsing, exporting, prevData, picked>>

downloadImage ==
  /\ variant # VTable
  /\ ChartVisible
  /\ InFlight < MaxInFlight
  /\ exporting' = exporting + 1
  /\ event' = "downloadImage"
  /\ UNCHANGED <<variant, csvData, fields, selectedFields, scalingFactors,
                 data, xAxisField, xAxisScalingFactor, showForm,
                 isFullScreen, fileName, parsing, prevData, picked>>

\* toPng(...).then: download(dataUrl, ...)
toPngThen ==
  /\ exporting > 0
  /\ exporting' = exporting - 1
  /\ event' = "toPng: download"
  /\ UNCHANGED <<variant, csvData, fields, selectedFields, scalingFactors,
                 data, xAxisField, xAxisScalingFactor, showForm,
                 isFullScreen, fileName, parsing, prevData, picked>>

\* toPng(...).catch: console.error(...)
toPngCatch ==
  /\ exporting > 0
  /\ exporting' = exporting - 1
  /\ event' = "toPng: console.error"
  /\ UNCHANGED <<variant, csvData, fields, selectedFields, scalingFactors,
                 data, xAxisField, xAxisScalingFactor, showForm,
                 isFullScreen, fileName, parsing, prevData, picked>>

\* <a href="/">Select another file</a>: the page loads anew
selectAnotherFile ==
  /\ variant = VTable
  /\ FormVisible
  /\ csvData' = <<>>
  /\ fields' = <<>>
  /\ selectedFields' = <<>>
  /\ scalingFactors' = <<>>
  /\ data' = <<>>
  /\ xAxisField' = <<>>
  /\ xAxisScalingFactor' = Unit
  /\ showForm' = TRUE
  /\ isFullScreen' = FALSE
  /\ fileName' = <<>>
  /\ parsing' = EmptyBag
  /\ exporting' = 0
  /\ picked' = NoFile
  /\ event' = "mount"
  /\ steps' = 0
  /\ prevData' = <<>>
  /\ UNCHANGED <<variant, scaleVars>>

-----------------------------------------------------------------------------
FieldNames == {FX, FY, FN, FR}

\* one more event handled; the model follows a page for MaxSteps events
Tick == steps < MaxSteps /\ steps' = steps + 1 /\ UNCHANGED scaleVars

Next ==
  \/ Tick /\ \E f \in Files : handleFileUpload(f)
  \/ Tick /\ \E f \in Files : complete(f)
  \/ Tick /\ \E field \in FieldNames : handleFieldChange(field)
  \/ Tick /\ \E field \in FieldNames, factor \in UserOptions :
               handleScalingChange(field, factor)
  \/ Tick /\ \E field \in FieldNames : setXAxisField(field)
  \/ Tick /\ \E field \in FieldNames : handleXAxisFieldChange(field)
  \/ Tick /\ \E factor \in UserOptions : setXAxisScalingFactor(factor)
  \/ Tick /\ generateGraph
  \/ Tick /\ selectFieldsAgain
  \/ Tick /\ enterFullScreen
  \/ Tick /\ exitFullScreen
  \/ Tick /\ downloadImage
  \/ Tick /\ toPngThen
  \/ Tick /\ toPngCatch
  \/ selectAnotherFile

Spec == Init /\ [][Next]_vars

-----------------------------------------------------------------------------
(* The scaling heuristic on its own: Init draws the arguments, the one     *)
(* action calls the function of the variant.  The first variant of         *)
(* App.jsx has no heuristic.                                               *)

ScaleNames ==
  {<<>>, FX, FN, FR,
   <<"%">>,
   <<"p", "e", "r", "c", "e", "n", "t">>,
   <<"P", "E", "R", "C", "E", "N", "T">>,
   <<"n", "P", "e", "r", "C", "e", "n", "T", "x">>,
   <<"p", "e", "r", "c">>,
   <<"c", "e", "n", "t">>,
   <<"p", "e", "r", " ", "c", "e", "n", "t">>}

InitScale ==
  /\ variant \in {VExport, VTable}
  /\ Mount
  /\ argMaxValue \in (0 - MaxValue)..MaxValue
  /\ argFieldName \in ScaleNames
  /\ called = FALSE
  /\ result = 0

callScale ==
  /\ ~called
  /\ called' = TRUE
  /\ result' = calculateScalingFactor(variant, argMaxValue, argFieldName)
  /\ UNCHANGED <<variant, csvData, fields, selectedFields, scalingFactors,
                 data, xAxisField, xAxisScalingFactor, showForm,
                 isFullScreen, fileName, parsing, exporting, event, steps,
                 prevData, argMaxValue, argFieldName, picked>>

NextScale == callScale

SpecScale == InitScale /\ [][NextScale]_vars

-----------------------------------------------------------------------------
(* Properties *)

PercentLetters ==
  <<{"p", "P"}, {"e", "E"}, {"r", "R"}, {"c", "C"}, {"e", "E"}, {"n", "N"},
    {"t", "T"}>>

\* the name contains "percent" in some letter case, or "%"
NamesPercentage(name) ==
  \/ \E i \in 0..(Len(name) - 7) :
       \A k \in 1..7 : name[i + k] \in PercentLetters[k]
  \/ \E i \in 1..Len(name) : name[i] = "%"

\* the rows of a Dataset in which both the X cell and the Y cell are numeric,
\* as points (row[X] * xFactor, row[f] * factor), in row order
RECURSIVE PointsOf(_, _, _, _, _)
PointsOf(rows, xField, xFactor, field, factor) ==
  IF Len(rows) = 0 THEN <<>>
  ELSE LET xCell == Get(rows[1], xField)
           yCell == Get(rows[1], field)
           rest == PointsOf(Tail(rows), xField, xFactor, field, factor)
       IN IF ~isNaN(xCell) /\ ~isNaN(yCell)
          THEN <<<<Times(xCell, xFactor), Times(yCell, factor)>>>> \o rest
          ELSE rest

Zip(xs, ys) == [i \in 1..Len(xs) |-> <<xs[i], ys[i]>>]

\* C1: after a Generate with an X field selected, the series of every
\* selected Y field has x and y of equal length, and its points are exactly
\* the pairs (row[X] * xFactor, row[f] * factor(f)) of the rows in which both
\* cells are numeric, in row order.
C1_PairedPoints ==
  (variant = VTable /\ event = "generateGraph") =>
    \A i \in 1..Len(data) :
      /\ Len(data[i].x) = Len(data[i].y)
      /\ Zip(data[i].x, data[i].y) =
           PointsOf(csvData, xAxisField, xAxisScalingFactor,
                    selectedFields[i], factorOf(selectedFields[i]))

\* C2: a Generate while no X field is selected raises the blocking prompt
\* and changes nothing of the state: X field, X factor, Y fields, factors,
\* Series, Dataset, field list, file name and view mode.
C2_RejectedGenerate ==
  [][(xAxisField = <<>>
        /\ event' \in {"generateGraph", "generateGraph: alert"})
       => (event' = "generateGraph: alert" /\ UNCHANGED state
             /\ showForm')]_vars

C2_Witness ==
  /\ event = "generateGraph: alert"
  /\ xAxisField = <<>>
  /\ Len(csvData) > 0
  /\ Len(selectedFields) > 0
  /\ \E f \in DOMAIN scalingFactors : scalingFactors[f] # Unit

\* the factor a field has before the user touches its dropdown
DefaultFactor(field) ==
  IF variant = VBasic THEN Unit
  ELSE calculateScalingFactor(variant, maxValueOf(csvData, field), field)

\* no X field, no Y field, and only default factors for the field list
SelectionReset ==
  /\ xAxisField = <<>>
  /\ selectedFields = <<>>
  /\ xAxisScalingFactor = Unit
  /\ \A f \in DOMAIN scalingFactors :
       includesElem(fields, f) /\ scalingFactors[f] = DefaultFactor(f)

\* C3: when a file is uploaded while a Dataset is loaded and a Selection is
\* made, the Selection is reset once the complete callback of that upload
\* has run (here: the callback runs right after the upload, no other parse
\* pending).
C3_UploadResetsSelection ==
  [][(/\ event = "handleFileUpload"
      /\ BagCardinality(parsing) = 1
      /\ Len(csvData) > 0
      /\ (xAxisField # <<>> \/ Len(selectedFields) > 0)
      /\ event' = "complete")
       => SelectionReset']_vars

\* C4: for a field name that contains "percent" or "%" in any letter case,
\* calculateScalingFactor returns 0.01 whatever maxValue is.
C4_PercentFirst ==
  (called /\ NamesPercentage(argFieldName)) => result = 10

C4_Witness ==
  /\ called
  /\ argFieldName = <<"P", "E", "R", "C", "E", "N", "T">>
  /\ argMaxValue >= 1000
  /\ result = 10

\* C5, as claimed: calculateScalingFactor(0, name) is 1 for every name.
C5_ZeroGivesOne ==
  (called /\ argMaxValue = 0) => result = Unit

\* C5, amended: calculateScalingFactor(0, name) is 1 for every name that
\* contains neither "percent" nor "%" (in any letter case).
C5_ZeroGivesOneUnlessPercent ==
  (called /\ argMaxValue = 0 /\ ~NamesPercentage(argFieldName))
    => result = Unit

C5_Witness ==
  /\ called
  /\ argMaxValue = 0
  /\ argFieldName = <<"c", "e", "n", "t">>
  /\ result = Unit

\* C6: the X field is never one of the selected Y fields, and no series of a
\* built chart is the X field plotted against itself.
C6_XNotAmongY ==
  /\ ~includesElem(selectedFields, xAxisField)
  /\ event = "generateGraph" =>
       \A i \in 1..Len(data) : data[i].name[1] # xAxisField

\* C7: a Generate with an X field selected replaces the Series by exactly
\* one series per currently selected Y field, built from the current
\* Selection and Dataset; re-opening the form leaves the Series as they were.
C7_RegenerateReplaces ==
  [][/\ event' = "generateGraph" =>
          /\ data' = plotData'
          /\ Len(data') = Len(selectedFields')
          /\ \A i \in 1..Len(data') : data'[i].name[1] = selectedFields'[i]
     /\ event' = "setShowForm(true)" => data' = data]_vars

\* a second chart, built after the form was re-opened and the Selection
\* changed
C7_Witness ==
  /\ event = "generateGraph"
  /\ Len(prevData) > 0
  /\ Len(data) > 0
  /\ data # prevData

\* C8: a parse that completes with zero rows ends in a reported error, not
\* in a failure of the callback, and leaves the field list that of the
\* stored Dataset.
C8_EmptyFileReported ==
  /\ event # "complete: TypeError"
  /\ (event \in {"complete", "complete: alert"} /\ Len(csvData) = 0)
       => event = "complete: alert"
  /\ fields = IF Len(csvData) = 0 THEN <<>> ELSE ObjectKeys(csvData[1])

\* C9: at most one parse or export is in flight, and a complete callback
\* stores the Dataset of the file named by fileName.
C9_OneInFlight ==
  /\ InFlight <= 1
  /\ event \in {"complete", "complete: TypeError"} =>
       \E f \in Files :
         csvData = parsedRows(f) /\ fileName = baseName(Disk[f].name)

View ==
  IF isFullScreen THEN "FullScreen" ELSE IF showForm THEN "Form" ELSE "Chart"

ViewStep ==
  View' # View =>
    \/ /\ View = "Form" /\ View' = "Chart"
       /\ event' = "generateGraph" /\ xAxisField # <<>>
    \/ /\ View = "Chart" /\ View' = "Form"
       /\ event' = "setShowForm(true)"
    \/ /\ View = "Chart" /\ View' = "FullScreen"
       /\ event' = "setIsFullScreen(true)"
    \/ /\ View = "FullScreen" /\ View' = "Chart"
       /\ event' = "setIsFullScreen(false)"

\* C10: the view starts as Form and changes only Form -> Chart by a Generate
\* with an X field selected, Chart -> Form by "Select fields again",
\* Chart -> FullScreen by "Full screen" and FullScreen -> Chart by "Exit
\* full screen"; isFullScreen implies not showForm.
C10_ViewTransitions ==
  /\ View = "Form"
  /\ [](isFullScreen => ~showForm)
  /\ [][ViewStep]_vars

\* back on the chart after a full-screen round trip
C10_Witness ==
  /\ event = "setIsFullScreen(false)"
  /\ View = "Chart"
  /\ Len(data) > 0

Abs(n) == IF n < 0 THEN 0 - n ELSE n

\* the maximum absolute value over the numeric cells of a column, 0 when the
\* column has no numeric cell
MaxAbsOf(rows, field) ==
  Max({0} \cup {Abs(Number(Get(rows[i], field))[2]) :
                  i \in {k \in 1..Len(rows) : ~isNaN(Get(rows[k], field))}})

\* C11: right after a parse completes with at least one row, in the variants
\* that seed factors, every field f of the first row has the stored factor
\* scale(m, f), m the maximum absolute value over the numeric cells of
\* column f (0 when there is none).
C11_SeededByMaxAbs ==
  (variant # VBasic /\ event = "complete") =>
    \A i \in 1..Len(fields) :
      /\ fields[i] \in DOMAIN scalingFactors
      /\ scalingFactors[fields[i]] =
           calculateScalingFactor(variant, MaxAbsOf(csvData, fields[i]),
                                  fields[i])

====
